---- MODULE Spec2Model ----
(***************************************************************************)
(* Model of the DHT11 reader of src/dht11/__init__.py: the handshake, the  *)
(* polling sampler, the pulse extractor, the bit decoder, the checksum     *)
(* test and the retry loop of DHT11.read().                                *)
(*                                                                         *)
(* Levels are GPIO.LOW = 0 and GPIO.HIGH = 1.  Temperature and humidity    *)
(* are floats in the source; every value the code can produce is a whole   *)
(* number of tenths, and the model carries them in tenths.                 *)
(* A Python int is unbounded; the 40-bit accumulator of the decoder is     *)
(* carried as its binary digits, most significant first.                   *)
(***************************************************************************)
EXTENDS Integers, Sequences, FiniteSets, TLC

VARIABLES self, arg_raise_error,
          pc, try_count,
          pin_mode, ops,
          scn, wave,
          data, unchanged_count, last,
          input_data, signals, bytes, checksum_ok,
          humidity, temperature, response, exc,
          attempts, fails, sleeps, decoded

vars == <<self, arg_raise_error, pc, try_count, pin_mode, ops, scn, wave,
          data, unchanged_count, last, input_data, signals, bytes,
          checksum_ok, humidity, temperature, response, exc,
          attempts, fails, sleeps, decoded>>

(***************************************************************************)
(* Program constants.                                                      *)
(***************************************************************************)
LOW == 0
HIGH == 1
STATUS_OK == 0
STATUS_ERROR_CHECKSUM == 1
STATUS_ERROR_TIMEOUT == 2
MIN_INTERVAL == 2
unchanged_threshold == 200
NumSignals == 40
SignalPin == 26
None == "None"

\* a local of read() is unbound until its first assignment: a sequence of
\* length at most one, empty while unbound
Unbound == <<>>
Bind(v) == <<v>>
Val(x) == x[1]
IsBound(x) == x # Unbound

(***************************************************************************)
(* Bounds of the exploration.                                              *)
(***************************************************************************)
MaxTries == 2
MaxTrace == 500

(***************************************************************************)
(* Helpers.                                                                *)
(***************************************************************************)
Rep(x, n) == [k \in 1..n |-> x]

Pow2(n) == IF n = 0 THEN 1 ELSE IF n = 1 THEN 2 ELSE IF n = 2 THEN 4
           ELSE IF n = 3 THEN 8 ELSE IF n = 4 THEN 16 ELSE IF n = 5 THEN 32
           ELSE IF n = 6 THEN 64 ELSE 128

RECURSIVE BitAnd(_, _)
BitAnd(a, b) == IF a = 0 \/ b = 0 THEN 0
                ELSE (a % 2) * (b % 2) + 2 * BitAnd(a \div 2, b \div 2)

SeqMin(s) == CHOOSE x \in {s[k] : k \in 1..Len(s)} :
                 \A y \in {s[k] : k \in 1..Len(s)} : x <= y
SeqMax(s) == CHOOSE x \in {s[k] : k \in 1..Len(s)} :
                 \A y \in {s[k] : k \in 1..Len(s)} : x >= y

(***************************************************************************)
(* The sensor and the line: what GPIO.input can observe.  A scenario is    *)
(* one response of the sensor to the start signal: leading High samples,   *)
(* the acknowledgement (Low run, High run), n data pulses (Low gap, High   *)
(* pulse whose width encodes the bit), a trailing Low run, and then the    *)
(* line either holding the idle level or toggling on every poll.           *)
(***************************************************************************)
Frames == { <<40, 2, 23, 5, 70>>,      \* 40.2 %, 23.5 C
            <<50, 0, 25, 133, 208>>,   \* sign flag set: -25.5 C
            <<0, 0, 0, 0, 0>>,
            <<200, 100, 0, 0, 44>>,    \* sum 300 = 44 mod 256
            <<255, 255, 255, 255, 252>>,
            <<40, 2, 23, 5, 71>>,      \* checksum off by one
            <<200, 100, 0, 0, 45>>,
            <<1, 2, 3, 127, 133>> }

\* widths of a short (bit 0) and a long (bit 1) pulse, plain and jittered
Profiles == { [s0 |-> 1, s1 |-> 1, l0 |-> 3, l1 |-> 3],
              [s0 |-> 1, s1 |-> 2, l0 |-> 4, l1 |-> 5],
              [s0 |-> 1, s1 |-> 2, l0 |-> 3, l1 |-> 3],
              [s0 |-> 1, s1 |-> 3, l0 |-> 4, l1 |-> 4],
              [s0 |-> 2, s1 |-> 2, l0 |-> 2, l1 |-> 2] }

CleanProfile == [s0 |-> 1, s1 |-> 1, l0 |-> 3, l1 |-> 3]
BaseFrame == <<40, 2, 23, 5, 70>>

Jittered(p) == p % 5 = 3

\* bit p (1..40, most significant bit of byte 0 first) of a frame; the
\* pulses past the 40th carry 0
FrameBit(frame, p) ==
    IF p > NumSignals THEN 0
    ELSE (frame[((p - 1) \div 8) + 1] \div Pow2(7 - ((p - 1) % 8))) % 2

PulseWidth(s, p) ==
    IF FrameBit(s.frame, p) = 1
    THEN (IF Jittered(p) THEN s.profile.l1 ELSE s.profile.l0)
    ELSE (IF Jittered(p) THEN s.profile.s1 ELSE s.profile.s0)

PulseWidths(s) == [p \in 1..s.n |-> PulseWidth(s, p)]

\* the data pulses lo..hi: each a Low gap and its High pulse
RECURSIVE Pulses(_, _, _)
Pulses(s, lo, hi) ==
    IF lo > hi THEN <<>>
    ELSE IF lo = hi THEN Rep(LOW, s.gap) \o Rep(HIGH, PulseWidth(s, lo))
    ELSE Pulses(s, lo, (lo + hi) \div 2) \o Pulses(s, ((lo + hi) \div 2) + 1, hi)

Wave(s) == Rep(HIGH, s.lead)
           \o (IF s.ack THEN Rep(LOW, 2) \o Rep(HIGH, 2) ELSE <<>>)
           \o Pulses(s, 1, s.n)
           \o Rep(LOW, s.tailLow)

Scenario(lead, ack, n, frame, profile, tailLow, idle, after) ==
    [lead |-> lead, ack |-> ack, n |-> n, frame |-> frame, profile |-> profile,
     gap |-> 1, tailLow |-> tailLow, idle |-> idle, after |-> after]

Scenarios ==
    \* every frame under every width profile, in a well-formed response
    { Scenario(1, TRUE, NumSignals, f, p, 1, HIGH, "hold") :
          f \in Frames, p \in Profiles }
    \cup
    \* the framing of the response: lead, acknowledgement, pulse count, tail
    { Scenario(l, a, n, BaseFrame, CleanProfile, t, i, "hold") :
          l \in {0, 1}, a \in BOOLEAN,
          n \in {0, NumSignals - 1, NumSignals, NumSignals + 1},
          t \in {0, 1}, i \in {LOW, HIGH} }
    \cup
    \* a line that never settles
    { Scenario(1, TRUE, 0, BaseFrame, CleanProfile, 0, HIGH, "toggle") }

\* the level GPIO.input returns at the k-th poll of an acquisition
LineLevel(k, prev) ==
    IF k <= Len(wave) THEN wave[k]
    ELSE IF scn.after = "hold" THEN scn.idle
    ELSE IF prev = HIGH THEN LOW ELSE HIGH

(***************************************************************************)
(* DHT11Response(status, temperature, humidity); the defaults are -1.      *)
(***************************************************************************)
Tenths(x) == 10 * x

DHT11Response(status, t, h) == [status |-> status, temperature |-> t, humidity |-> h]

is_valid(r) == r.status = STATUS_OK

DHT11Errors == {"DHT11InvalidDataError", "DHT11ChecksumError", "DHT11TimeoutError"}

(***************************************************************************)
(* __parse_input_data.  Indices are 1-based here: the Python index i is    *)
(* i - 1.  Each loop is its body folded over the index range in order; the *)
(* range is split in halves only to keep the evaluation shallow.           *)
(***************************************************************************)
\* body of the first loop; after a break the remaining indices are skipped
FindStep(d, st, i) ==
    IF st.broke THEN st
    ELSE LET p1 == IF st.pattern = 0 /\ d[i] = LOW THEN 1 ELSE st.pattern
             p2 == IF p1 = 1 /\ d[i] = HIGH THEN 2 ELSE p1
         IN  [pattern |-> p2, i |-> i, broke |-> (p2 = 2 /\ d[i] = LOW)]

RECURSIVE FindLoop(_, _, _, _)
FindLoop(d, st, lo, hi) ==
    IF lo > hi THEN st
    ELSE IF lo = hi THEN FindStep(d, st, lo)
    ELSE LET mid == (lo + hi) \div 2
             left == FindLoop(d, st, lo, mid)
         IN  IF left.broke THEN left ELSE FindLoop(d, left, mid + 1, hi)

\* the value of i after the first loop: the index of the break, or the
\* last index when the loop runs out
FindStart(d) == FindLoop(d, [pattern |-> 0, i |-> 0, broke |-> FALSE], 1, Len(d)).i

\* mutation: the run counter is not reset when a width is emitted
CountStep_NoReset(d, st, j) ==
    IF d[j] = HIGH
    THEN [st EXCEPT !.high_signal_length = st.high_signal_length + 1]
    ELSE IF st.high_signal_length > 0
         THEN [high_signal_length |-> st.high_signal_length,
               sigs |-> Append(st.sigs, st.high_signal_length)]
         ELSE st

\* body of the second loop
CountStep(d, st, j) ==
    IF d[j] = HIGH
    THEN [st EXCEPT !.high_signal_length = st.high_signal_length + 1]
    ELSE IF st.high_signal_length > 0
         THEN [high_signal_length |-> 0,
               sigs |-> Append(st.sigs, st.high_signal_length)]
         ELSE st

RECURSIVE CountLoop(_, _, _, _)
CountLoop(d, st, lo, hi) ==
    IF lo > hi THEN st
    ELSE IF lo = hi THEN CountStep(d, st, lo)
    ELSE LET mid == (lo + hi) \div 2
             left == CountLoop(d, st, lo, mid)
         IN  IF left.high_signal_length >= 0 THEN CountLoop(d, left, mid + 1, hi)
             ELSE left

\* mutation: the second loop starts at the head of the trace
parse_input_data_FromHead(d) ==
    LET input_length == Len(d)
        i == FindStart(d)
    IN  IF (i - 1) >= input_length THEN <<>>
        ELSE CountLoop(d, [high_signal_length |-> 0, sigs |-> <<>>], 1, input_length).sigs

\* mutation: a High run still open at the end of the trace is emitted
parse_input_data_EmitTrailing(d) ==
    LET input_length == Len(d)
        i == FindStart(d)
        st == CountLoop(d, [high_signal_length |-> 0, sigs |-> <<>>], i, input_length)
    IN  IF (i - 1) >= input_length THEN <<>>
        ELSE IF st.high_signal_length > 0
             THEN Append(st.sigs, st.high_signal_length)
             ELSE st.sigs

parse_input_data(d) ==
    LET input_length == Len(d)
        i == FindStart(d)
    IN  IF (i - 1) >= input_length THEN <<>>
        ELSE CountLoop(d, [high_signal_length |-> 0, sigs |-> <<>>], i, input_length).sigs

(***************************************************************************)
(* __calculate_bits.  half_length is the exact quotient (min + max) / 2,   *)
(* kept as a fraction; bits is the accumulator as binary digits.           *)
(***************************************************************************)

\* mutation: the sum of min and max is not halved
HalfLength_NotHalved(sigs) == [num |-> SeqMin(sigs) + SeqMax(sigs), den |-> 1]

HalfLength(sigs) == [num |-> SeqMin(sigs) + SeqMax(sigs), den |-> 2]

\* mutation: the comparison is turned round
Greater_Reversed(signal, q) == signal * q.den < q.num

\* mutation: >= in place of >
Greater_OrEqual(signal, q) == signal * q.den >= q.num

Greater(signal, q) == signal * q.den > q.num

ShiftLeft1(bits) == Append(bits, 0)

OrOne(bits) == [bits EXCEPT ![Len(bits)] = 1]

\* body of the loop: bits <<= 1; if signal > half_length: bits |= 1
AccumulateStep(sigs, half_length, bits, k) ==
    LET shifted == ShiftLeft1(bits)
    IN  IF Greater(sigs[k], half_length) THEN OrOne(shifted) ELSE shifted

\* the loop body folded over the indices lo..hi in order; the range is split
\* in halves only to keep the evaluation shallow
RECURSIVE Accumulate(_, _, _, _, _)
Accumulate(sigs, half_length, bits, lo, hi) ==
    IF lo > hi THEN bits
    ELSE IF lo = hi THEN AccumulateStep(sigs, half_length, bits, lo)
    ELSE LET mid == (lo + hi) \div 2
             left == Accumulate(sigs, half_length, bits, lo, mid)
         IN  IF Len(left) >= 0 THEN Accumulate(sigs, half_length, left, mid + 1, hi)
             ELSE left

RECURSIVE DigitsValue(_)
DigitsValue(ds) == IF ds = <<>> THEN 0
                   ELSE 2 * DigitsValue(SubSeq(ds, 1, Len(ds) - 1)) + ds[Len(ds)]

\* (bits >> k) & 0xFF
ShiftRightMask(bits, k) ==
    LET sh == SubSeq(bits, 1, Len(bits) - k)
        lo == IF Len(sh) > 8 THEN SubSeq(sh, Len(sh) - 7, Len(sh)) ELSE sh
    IN  DigitsValue(lo)

calculate_bits(sigs) ==
    LET bits == Accumulate(sigs, HalfLength(sigs), <<>>, 1, Len(sigs))
    IN  << ShiftRightMask(bits, 32), ShiftRightMask(bits, 24),
           ShiftRightMask(bits, 16), ShiftRightMask(bits, 8),
           ShiftRightMask(bits, 0) >>

(***************************************************************************)
(* __validate_checksum and the value derivation of read().                 *)
(***************************************************************************)

\* mutation: the sum is compared without the 0xFF mask
validate_checksum_NoMask(b) == b[5] = b[1] + b[2] + b[3] + b[4]

validate_checksum(b) == b[5] = BitAnd(b[1] + b[2] + b[3] + b[4], 255)

Humidity(b) == Tenths(b[1]) + b[2]

\* mutation: the sign flag is kept in the tenths instead of masked out
Temperature_NoMask(b) ==
    LET t == Tenths(b[3]) + b[4]
    IN  IF BitAnd(b[4], 128) # 0 THEN t * (-1) ELSE t

\* mutation: the tenths are capped at 9
Temperature_Capped(b) ==
    LET d == BitAnd(b[4], 127)
        t == Tenths(b[3]) + (IF d > 9 THEN 9 ELSE d)
    IN  IF BitAnd(b[4], 128) # 0 THEN t * (-1) ELSE t

Temperature(b) ==
    LET t == Tenths(b[3]) + BitAnd(b[4], 127)
    IN  IF BitAnd(b[4], 128) # 0 THEN t * (-1) ELSE t

(***************************************************************************)
(* State after construction.  __init__ stores signal_pin, max_tries and    *)
(* min_interval; its raise_error argument is received and not stored, so   *)
(* the object has no raise_error attribute.                                *)
(***************************************************************************)
DHT11Init(signal_pin, max_tries, min_interval, raise_error) ==
    [signal_pin |-> signal_pin, max_tries |-> max_tries, min_interval |-> min_interval]

Init ==
    /\ arg_raise_error \in BOOLEAN
    /\ self \in { DHT11Init(SignalPin, m, MIN_INTERVAL, arg_raise_error) : m \in 0..MaxTries }
    /\ pc = "idle"
    /\ try_count = 0
    /\ pin_mode = "unset"
    /\ ops = <<>>
    /\ scn = None
    /\ wave = <<>>
    /\ data = <<>>
    /\ unchanged_count = 0
    /\ last = -1
    /\ input_data = Unbound
    /\ signals = Unbound
    /\ bytes = Unbound
    /\ checksum_ok = Unbound
    /\ humidity = Unbound
    /\ temperature = Unbound
    /\ response = Unbound
    /\ exc = None
    /\ attempts = 0
    /\ fails = 0
    /\ sleeps = 0
    /\ decoded = FALSE

(***************************************************************************)
(* read().  attempts, fails, sleeps and decoded record what one call has   *)
(* done: attempts started, exceptions raised inside the try block, sleeps  *)
(* of min_interval, and whether __calculate_bits ran in this attempt.      *)
(* ops lists the GPIO and sleep calls of the current attempt, the polls    *)
(* excepted.                                                               *)
(***************************************************************************)
Call ==
    /\ pc \in {"idle", "returned", "raised"}
    /\ pc' = "while"
    /\ try_count' = 0
    /\ ops' = <<>>
    /\ scn' = None
    /\ wave' = <<>>
    /\ data' = <<>>
    /\ unchanged_count' = 0
    /\ last' = -1
    /\ input_data' = Unbound
    /\ signals' = Unbound
    /\ bytes' = Unbound
    /\ checksum_ok' = Unbound
    /\ humidity' = Unbound
    /\ temperature' = Unbound
    /\ response' = Unbound
    /\ exc' = None
    /\ attempts' = 0
    /\ fails' = 0
    /\ sleeps' = 0
    /\ decoded' = FALSE
    /\ UNCHANGED <<self, arg_raise_error, pin_mode>>

\* mutation: >= in place of >
WhileTest_Inclusive == self.max_tries >= try_count

WhileTest == self.max_tries > try_count

WhileEnter ==
    /\ pc = "while"
    /\ WhileTest
    /\ pc' = "setup"
    /\ attempts' = attempts + 1
    /\ ops' = <<>>
    /\ decoded' = FALSE
    /\ UNCHANGED <<self, arg_raise_error, try_count, pin_mode, scn, wave, data,
                   unchanged_count, last, input_data, signals, bytes, checksum_ok,
                   humidity, temperature, response, exc, fails, sleeps>>

WhileExit ==
    /\ pc = "while"
    /\ ~WhileTest
    /\ pc' = "exhausted"
    /\ UNCHANGED <<self, arg_raise_error, try_count, pin_mode, ops, scn, wave, data,
                   unchanged_count, last, input_data, signals, bytes, checksum_ok,
                   humidity, temperature, response, exc, attempts, fails, sleeps,
                   decoded>>

\* GPIO.setup(pin, OUT, initial=HIGH); time.sleep(.5)
Setup ==
    /\ pc = "setup"
    /\ pin_mode' = "out"
    /\ ops' = ops \o << <<"setup_out", HIGH>>, <<"sleep", 500>> >>
    /\ pc' = "send_high"
    /\ UNCHANGED <<self, arg_raise_error, try_count, scn, wave, data,
                   unchanged_count, last, input_data, signals, bytes, checksum_ok,
                   humidity, temperature, response, exc, attempts, fails, sleeps,
                   decoded>>

\* mutation: the sleep precedes the write
send_signal_SleepFirst(signal, timeout) == << <<"sleep", timeout>>, <<"output", signal>> >>

\* __send_signal(signal, timeout): GPIO.output then time.sleep (milliseconds)
send_signal(signal, timeout) == << <<"output", signal>>, <<"sleep", timeout>> >>

SendHigh ==
    /\ pc = "send_high"
    /\ ops' = ops \o send_signal(HIGH, 50)
    /\ pc' = "send_low"
    /\ UNCHANGED <<self, arg_raise_error, try_count, pin_mode, scn, wave, data,
                   unchanged_count, last, input_data, signals, bytes, checksum_ok,
                   humidity, temperature, response, exc, attempts, fails, sleeps,
                   decoded>>

SendLow ==
    /\ pc = "send_low"
    /\ ops' = ops \o send_signal(LOW, 20)
    /\ pc' = "collect"
    /\ UNCHANGED <<self, arg_raise_error, try_count, pin_mode, scn, wave, data,
                   unchanged_count, last, input_data, signals, bytes, checksum_ok,
                   humidity, temperature, response, exc, attempts, fails, sleeps,
                   decoded>>

\* mutation: the poll counter of the previous acquisition is kept
CollectStart_KeepCount ==
    /\ pc = "collect"
    /\ unchanged_count' = unchanged_count
    /\ last' = -1
    /\ data' = <<>>
    /\ pin_mode' = "in"
    /\ ops' = Append(ops, <<"setup_in", LOW>>)
    /\ \E s \in Scenarios : scn' = s /\ wave' = Wave(s)
    /\ pc' = "poll"
    /\ UNCHANGED <<self, arg_raise_error, try_count, input_data, signals, bytes,
                   checksum_ok, humidity, temperature, response, exc, attempts,
                   fails, sleeps, decoded>>

\* __collect_input up to its loop; the sensor answers the start signal
CollectStart ==
    /\ pc = "collect"
    /\ unchanged_count' = 0
    /\ last' = -1
    /\ data' = <<>>
    /\ pin_mode' = "in"
    /\ ops' = Append(ops, <<"setup_in", LOW>>)
    /\ \E s \in Scenarios : scn' = s /\ wave' = Wave(s)
    /\ pc' = "poll"
    /\ UNCHANGED <<self, arg_raise_error, try_count, input_data, signals, bytes,
                   checksum_ok, humidity, temperature, response, exc, attempts,
                   fails, sleeps, decoded>>

\* mutation: <= in place of <
LoopTest_Inclusive == unchanged_count <= unchanged_threshold

LoopTest == unchanged_count < unchanged_threshold

\* one iteration of the polling loop.  Only the first MaxTrace samples of a
\* trace are recorded; an acquisition that returns stays below that length.
Poll ==
    /\ pc = "poll"
    /\ LoopTest
    /\ LET current == LineLevel(Len(data) + 1, last)
       IN  /\ data' = (IF Len(data) < MaxTrace THEN Append(data, current) ELSE data)
           /\ IF last # current
              THEN /\ unchanged_count' = 0 + 1
                   /\ last' = current
              ELSE /\ unchanged_count' = unchanged_count + 1
                   /\ last' = last
    /\ UNCHANGED <<self, arg_raise_error, pc, try_count, pin_mode, ops, scn, wave,
                   input_data, signals, bytes, checksum_ok, humidity, temperature,
                   response, exc, attempts, fails, sleeps, decoded>>

\* return data; input_data = self.__collect_input()
CollectReturn ==
    /\ pc = "poll"
    /\ ~LoopTest
    /\ input_data' = Bind(data)
    /\ data' = <<>>
    /\ pc' = "parse"
    /\ UNCHANGED <<self, arg_raise_error, try_count, pin_mode, ops, scn, wave,
                   unchanged_count, last, signals, bytes, checksum_ok, humidity,
                   temperature, response, exc, attempts, fails, sleeps, decoded>>

Parse ==
    /\ pc = "parse"
    /\ signals' = Bind(parse_input_data(Val(input_data)))
    /\ pc' = "check_len"
    /\ UNCHANGED <<self, arg_raise_error, try_count, pin_mode, ops, scn, wave, data,
                   unchanged_count, last, input_data, bytes, checksum_ok, humidity,
                   temperature, response, exc, attempts, fails, sleeps, decoded>>

\* mutation: only too few pulses are refused
LengthOk_AtLeast(sigs) == ~(Len(sigs) < NumSignals)

LengthOk(sigs) == ~(Len(sigs) # NumSignals)

CheckLength ==
    /\ pc = "check_len"
    /\ IF LengthOk(Val(signals))
       THEN /\ pc' = "calc"
            /\ UNCHANGED <<exc, fails>>
       ELSE /\ exc' = "DHT11InvalidDataError"
            /\ fails' = fails + 1
            /\ pc' = "except"
    /\ UNCHANGED <<self, arg_raise_error, try_count, pin_mode, ops, scn, wave, data,
                   unchanged_count, last, input_data, signals, bytes, checksum_ok,
                   humidity, temperature, response, attempts, sleeps, decoded>>

CalculateBits ==
    /\ pc = "calc"
    /\ bytes' = Bind(calculate_bits(Val(signals)))
    /\ decoded' = TRUE
    /\ pc' = "validate"
    /\ UNCHANGED <<self, arg_raise_error, try_count, pin_mode, ops, scn, wave, data,
                   unchanged_count, last, input_data, signals, checksum_ok, humidity,
                   temperature, response, exc, attempts, fails, sleeps>>

\* mutation: a checksum mismatch on the last allowed attempt is returned as
\* a response with the checksum status
ValidateChecksum_Reported ==
    /\ pc = "validate"
    /\ checksum_ok' = Bind(validate_checksum(Val(bytes)))
    /\ IF Val(checksum_ok')
       THEN /\ pc' = "derive"
            /\ UNCHANGED <<exc, fails, response>>
       ELSE IF try_count + 1 = self.max_tries
       THEN /\ response' = Bind(DHT11Response(STATUS_ERROR_CHECKSUM, Tenths(-1), Tenths(-1)))
            /\ fails' = fails + 1
            /\ pc' = "returned"
            /\ UNCHANGED exc
       ELSE /\ exc' = "DHT11ChecksumError"
            /\ fails' = fails + 1
            /\ pc' = "except"
            /\ UNCHANGED response
    /\ UNCHANGED <<self, arg_raise_error, try_count, pin_mode, ops, scn, wave, data,
                   unchanged_count, last, input_data, signals, bytes, humidity,
                   temperature, attempts, sleeps, decoded>>

ValidateChecksum ==
    /\ pc = "validate"
    /\ checksum_ok' = Bind(validate_checksum(Val(bytes)))
    /\ IF Val(checksum_ok')
       THEN /\ pc' = "derive"
            /\ UNCHANGED <<exc, fails>>
       ELSE /\ exc' = "DHT11ChecksumError"
            /\ fails' = fails + 1
            /\ pc' = "except"
    /\ UNCHANGED <<self, arg_raise_error, try_count, pin_mode, ops, scn, wave, data,
                   unchanged_count, last, input_data, signals, bytes, humidity,
                   temperature, response, attempts, sleeps, decoded>>

Derive ==
    /\ pc = "derive"
    /\ humidity' = Bind(Humidity(Val(bytes)))
    /\ temperature' = Bind(Temperature(Val(bytes)))
    /\ pc' = "return"
    /\ UNCHANGED <<self, arg_raise_error, try_count, pin_mode, ops, scn, wave, data,
                   unchanged_count, last, input_data, signals, bytes, checksum_ok,
                   response, exc, attempts, fails, sleeps, decoded>>

Return ==
    /\ pc = "return"
    /\ response' = Bind(DHT11Response(STATUS_OK, Val(temperature), Val(humidity)))
    /\ pc' = "returned"
    /\ UNCHANGED <<self, arg_raise_error, try_count, pin_mode, ops, scn, wave, data,
                   unchanged_count, last, input_data, signals, bytes, checksum_ok,
                   humidity, temperature, exc, attempts, fails, sleeps, decoded>>

\* mutation: no sleep after the last allowed attempt
Except_SleepBetween ==
    /\ pc = "except"
    /\ exc \in DHT11Errors
    /\ try_count' = try_count + 1
    /\ IF try_count + 1 < self.max_tries
       THEN /\ sleeps' = sleeps + 1
            /\ ops' = Append(ops, <<"sleep", 1000 * self.min_interval>>)
       ELSE UNCHANGED <<sleeps, ops>>
    /\ exc' = None
    /\ input_data' = Unbound
    /\ signals' = Unbound
    /\ bytes' = Unbound
    /\ checksum_ok' = Unbound
    /\ scn' = None
    /\ wave' = <<>>
    /\ pc' = "while"
    /\ UNCHANGED <<self, arg_raise_error, pin_mode, data, unchanged_count, last,
                   humidity, temperature, response, attempts, fails, decoded>>

\* mutation: the handler counts the failure and does not sleep
Except_NoSleep ==
    /\ pc = "except"
    /\ exc \in DHT11Errors
    /\ try_count' = try_count + 1
    /\ exc' = None
    /\ input_data' = Unbound
    /\ signals' = Unbound
    /\ bytes' = Unbound
    /\ checksum_ok' = Unbound
    /\ scn' = None
    /\ wave' = <<>>
    /\ pc' = "while"
    /\ UNCHANGED <<self, arg_raise_error, pin_mode, ops, data, unchanged_count, last,
                   humidity, temperature, response, attempts, fails, sleeps, decoded>>

\* except DHT11Error: try_count += 1; time.sleep(self.min_interval).
\* The trace, widths and frame of the failed iteration are not read again
\* before the next iteration reassigns them, and are dropped here.
Except ==
    /\ pc = "except"
    /\ exc \in DHT11Errors
    /\ try_count' = try_count + 1
    /\ sleeps' = sleeps + 1
    /\ ops' = Append(ops, <<"sleep", 1000 * self.min_interval>>)
    /\ exc' = None
    /\ input_data' = Unbound
    /\ signals' = Unbound
    /\ bytes' = Unbound
    /\ checksum_ok' = Unbound
    /\ scn' = None
    /\ wave' = <<>>
    /\ pc' = "while"
    /\ UNCHANGED <<self, arg_raise_error, pin_mode, data, unchanged_count, last,
                   humidity, temperature, response, attempts, fails, decoded>>

\* after the loop: if self.raise_error: raise DHT11TimeoutError;
\* return DHT11Response(STATUS_ERROR_TIMEOUT).  Reading an attribute the
\* object does not have raises AttributeError.
Exhausted ==
    /\ pc = "exhausted"
    /\ IF "raise_error" \notin DOMAIN self
       THEN /\ exc' = "AttributeError"
            /\ pc' = "raised"
            /\ UNCHANGED response
       ELSE IF self.raise_error
       THEN /\ exc' = "DHT11TimeoutError"
            /\ pc' = "raised"
            /\ UNCHANGED response
       ELSE /\ response' = Bind(DHT11Response(STATUS_ERROR_TIMEOUT, Tenths(-1), Tenths(-1)))
            /\ pc' = "returned"
            /\ UNCHANGED exc
    /\ UNCHANGED <<self, arg_raise_error, try_count, pin_mode, ops, scn, wave, data,
                   unchanged_count, last, input_data, signals, bytes, checksum_ok,
                   humidity, temperature, attempts, fails, sleeps, decoded>>

Next ==
    \/ Call
    \/ WhileEnter
    \/ WhileExit
    \/ Setup
    \/ SendHigh
    \/ SendLow
    \/ CollectStart
    \/ Poll
    \/ CollectReturn
    \/ Parse
    \/ CheckLength
    \/ CalculateBits
    \/ ValidateChecksum
    \/ Derive
    \/ Return
    \/ Except
    \/ Exhausted

Spec == Init /\ [][Next]_vars

\* read() runs on one thread and always takes its next step
FairSpec == Spec /\ WF_vars(Next)

TypeOK ==
    /\ pc \in {"idle", "while", "setup", "send_high", "send_low", "collect", "poll",
               "parse", "check_len", "calc", "validate", "derive", "return",
               "except", "exhausted", "returned", "raised"}
    /\ try_count \in 0..MaxTries
    /\ unchanged_count \in 0..unchanged_threshold

(***************************************************************************)
(* The decoder, the checksum test and the value derivation on their own:   *)
(* the widths of a clean 40-pulse response carrying a frame drawn from     *)
(* FrameSpace, taken up where read() has accepted the pulse count.         *)
(***************************************************************************)
ByteVals == {0, 1, 127, 128, 255}

FrameSpace ==
    Frames \cup
    { <<b0, b1, b2, b3, c>> :
          b0 \in ByteVals, b1 \in ByteVals, b2 \in ByteVals, b3 \in ByteVals,
          c \in {0, 1, 2, 126, 127, 128, 129, 130, 253, 254, 255} }

InitDecode ==
    /\ arg_raise_error = FALSE
    /\ self = DHT11Init(SignalPin, 1, MIN_INTERVAL, arg_raise_error)
    /\ pc = "calc"
    /\ try_count = 0
    /\ pin_mode = "in"
    /\ ops = <<>>
    /\ \E f \in FrameSpace :
          /\ scn = Scenario(1, TRUE, NumSignals, f, CleanProfile, 1, HIGH, "hold")
          /\ wave = <<>>
          /\ signals = Bind(PulseWidths(scn))
    /\ data = <<>>
    /\ unchanged_count = unchanged_threshold
    /\ last = HIGH
    /\ input_data = Unbound
    /\ bytes = Unbound
    /\ checksum_ok = Unbound
    /\ humidity = Unbound
    /\ temperature = Unbound
    /\ response = Unbound
    /\ exc = None
    /\ attempts = 1
    /\ fails = 0
    /\ sleeps = 0
    /\ decoded = FALSE

NextDecode ==
    \/ CalculateBits
    \/ ValidateChecksum
    \/ Derive
    \/ Return
    \/ Except

SpecDecode == InitDecode /\ [][NextDecode]_vars

(***************************************************************************)
(* The sampler on its own: one acquisition, taken up where read() has sent *)
(* the start signal of its first attempt.                                  *)
(***************************************************************************)
InitSampler ==
    /\ arg_raise_error = FALSE
    /\ self = DHT11Init(SignalPin, 1, MIN_INTERVAL, arg_raise_error)
    /\ pc = "collect"
    /\ try_count = 0
    /\ pin_mode = "out"
    /\ ops = << <<"setup_out", HIGH>>, <<"sleep", 500>> >>
             \o send_signal(HIGH, 50) \o send_signal(LOW, 20)
    /\ scn = None
    /\ wave = <<>>
    /\ data = <<>>
    /\ unchanged_count = 0
    /\ last = -1
    /\ input_data = Unbound
    /\ signals = Unbound
    /\ bytes = Unbound
    /\ checksum_ok = Unbound
    /\ humidity = Unbound
    /\ temperature = Unbound
    /\ response = Unbound
    /\ exc = None
    /\ attempts = 1
    /\ fails = 0
    /\ sleeps = 0
    /\ decoded = FALSE

NextSampler ==
    \/ CollectStart
    \/ Poll
    \/ CollectReturn

\* the polling loop is a blocking busy loop: it takes its next step whenever
\* it has one
SpecSampler == InitSampler /\ [][NextSampler]_vars /\ WF_vars(NextSampler)

(***************************************************************************)
(* Properties.                                                             *)
(***************************************************************************)
Done == pc \in {"returned", "raised"}

ByteSum(b) == b[1] + b[2] + b[3] + b[4]

\* every acquisition over a line that settles stays below the recorded length
CapNotReached ==
    (pc = "poll" /\ scn.after = "hold") => Len(data) < MaxTrace

Returned(status) == pc = "returned" /\ IsBound(response) /\ Val(response).status = status

\* C1: with raise_error = false, a read() whose max_tries attempts all failed
\* has made exactly max_tries attempts and has returned a response with
\* status TimeoutError (2), temperature -1 and humidity -1.
C1_SentinelOnExhaustion ==
    (Done /\ fails = self.max_tries /\ ~arg_raise_error)
        => /\ pc = "returned"
           /\ attempts = self.max_tries
           /\ response = Bind(DHT11Response(STATUS_ERROR_TIMEOUT, Tenths(-1), Tenths(-1)))

\* C2: with raise_error = true, a read() whose max_tries attempts all failed
\* has made exactly max_tries attempts and has raised DHT11TimeoutError
\* instead of returning a response.
C2_RaiseOnExhaustion ==
    (Done /\ fails = self.max_tries /\ arg_raise_error)
        => /\ pc = "raised"
           /\ exc = "DHT11TimeoutError"
           /\ attempts = self.max_tries
           /\ response = Unbound

\* C3: a read() that has returned status Ok after k failed attempts has made
\* exactly k + 1 attempts and slept min_interval exactly k times, with
\* k < max_tries; nothing follows the return but a new call of read().
C3_RetryThenSuccess ==
    [][Returned(STATUS_OK)
          => /\ attempts = fails + 1
             /\ sleeps = fails
             /\ try_count = fails
             /\ fails < self.max_tries
             /\ pc' = "while" /\ attempts' = 0 /\ sleeps' = 0]_vars

C3_Witness ==
    Returned(STATUS_OK) /\ fails = 1 /\ sleeps = 1 /\ attempts = 2

\* C4: the validator accepts a frame exactly when its fifth byte equals the
\* sum of the first four modulo 256; an accepted frame goes on to the value
\* derivation and a rejected one raises the checksum error.
C4_ChecksumRule ==
    IsBound(checksum_ok)
        => /\ \A k \in 1..5 : Val(bytes)[k] \in 0..255
           /\ Val(checksum_ok) = (Val(bytes)[5] = ByteSum(Val(bytes)) % 256)
           /\ (pc = "derive" => Val(checksum_ok))
           /\ (pc = "except" => (~Val(checksum_ok) /\ exc = "DHT11ChecksumError"))

C4_Witness ==
    /\ pc = "derive"
    /\ Val(checksum_ok)
    /\ ByteSum(Val(bytes)) > 255

\* C5: the returned reading has 10 * humidity = 10 * frame[0] + frame[1] and
\* 10 * |temperature| = 10 * frame[2] + (frame[3] mod 128), negative exactly
\* when frame[3] >= 128; [40,2,23,5,70] gives 40.2 and 23.5, and
\* [50,0,25,0x85,c] gives -25.5.
C5_ValueDerivation ==
    Returned(STATUS_OK)
        => LET b == Val(bytes)
               r == Val(response)
           IN  /\ r.humidity = 10 * b[1] + b[2]
               /\ r.temperature =
                      (IF b[4] >= 128 THEN -1 ELSE 1) * (10 * b[3] + (b[4] % 128))
               /\ (b = <<40, 2, 23, 5, 70>> => (r.humidity = 402 /\ r.temperature = 235))
               /\ (SubSeq(b, 1, 4) = <<50, 0, 25, 133>> => r.temperature = -255)

C5_Witness ==
    /\ Returned(STATUS_OK)
    /\ Val(bytes) = <<50, 0, 25, 133, 208>>
    /\ Val(response).temperature = -255
    /\ Val(response).humidity = 500

\* a response as the pulse extractor's contract describes it: optional
\* leading High samples, the acknowledgement, exactly 40 data pulses, and a
\* line that then settles
WellFormed(s) == s.ack /\ s.n = NumSignals /\ s.after = "hold"

\* C6 as first stated: the well-formed trace ends in a Low run and/or an idle
\* tail of either level, and the extractor returns the 40 pulse widths in
\* capture order.
C6_Original ==
    (pc = "check_len" /\ WellFormed(scn))
        => /\ Len(Val(signals)) = NumSignals
           /\ Val(signals) = PulseWidths(scn)

\* C6: for a well-formed trace in which at least one Low sample follows the
\* 40th High run (a trailing Low run, or an idle tail that is Low), the
\* extractor returns exactly the 40 widths of the High runs after the
\* acknowledgement, in capture order; when the 40th High run runs into a
\* High idle tail it is not emitted and the first 39 widths are returned.
C6_PulseExtraction ==
    (pc = "check_len" /\ WellFormed(scn))
        => IF scn.tailLow > 0 \/ scn.idle = LOW
           THEN /\ Len(Val(signals)) = NumSignals
                /\ Val(signals) = PulseWidths(scn)
           ELSE Val(signals) = SubSeq(PulseWidths(scn), 1, NumSignals - 1)

C6_Witness ==
    /\ pc = "check_len"
    /\ WellFormed(scn)
    /\ scn.tailLow > 0
    /\ scn.profile.l1 > scn.profile.l0
    /\ Len(Val(signals)) = NumSignals
    /\ Val(input_data)[Len(wave)] = LOW

\* thresholds, doubled so that half-integer thresholds are covered
Thresholds2 == 0..12

Separates(sigs, T2) == \A k \in 1..Len(sigs) : 2 * sigs[k] # T2

SetMin(S) == CHOOSE x \in S : \A y \in S : x <= y
SetMax(S) == CHOOSE x \in S : \A y \in S : x >= y

\* both bands occur and each is narrower than the gap between them
TwoBands(sigs, T2) ==
    LET S == { sigs[k] : k \in { j \in 1..Len(sigs) : 2 * sigs[j] < T2 } }
        L == { sigs[k] : k \in { j \in 1..Len(sigs) : 2 * sigs[j] > T2 } }
    IN  /\ S # {}
        /\ L # {}
        /\ SetMax(S) - SetMin(S) < SetMin(L) - SetMax(S)
        /\ SetMax(L) - SetMin(L) < SetMin(L) - SetMax(S)

RefBit(sigs, T2, p) == IF 2 * sigs[p] > T2 THEN 1 ELSE 0

\* byte m (1..5) of the reference pattern, most significant bit first
RefByte(sigs, T2, m) ==
    LET o == 8 * (m - 1)
    IN  128 * RefBit(sigs, T2, o + 1) + 64 * RefBit(sigs, T2, o + 2)
        + 32 * RefBit(sigs, T2, o + 3) + 16 * RefBit(sigs, T2, o + 4)
        + 8 * RefBit(sigs, T2, o + 5) + 4 * RefBit(sigs, T2, o + 6)
        + 2 * RefBit(sigs, T2, o + 7) + RefBit(sigs, T2, o + 8)

RefBytes(sigs, T2) ==
    << RefByte(sigs, T2, 1), RefByte(sigs, T2, 2), RefByte(sigs, T2, 3),
       RefByte(sigs, T2, 4), RefByte(sigs, T2, 5) >>

\* C7 as first stated: for every threshold T that no width equals, the
\* decoder outputs the pattern with bit 0 for a width below T and bit 1 for a
\* width above T.
C7_Original ==
    pc = "validate"
        => \A T2 \in Thresholds2 :
              Separates(Val(signals), T2) => Val(bytes) = RefBytes(Val(signals), T2)

\* C7: for every 40 widths and every threshold T that no width equals, such
\* that widths occur on both sides of T and each side's spread (max - min)
\* is smaller than the gap between the sides, the decoder outputs the
\* pattern with bit 0 for a width below T and bit 1 for a width above T,
\* most significant bit first.
C7_TwoClusterDecoding ==
    pc = "validate"
        => \A T2 \in Thresholds2 :
              (Separates(Val(signals), T2) /\ TwoBands(Val(signals), T2))
                  => Val(bytes) = RefBytes(Val(signals), T2)

C7_Witness ==
    /\ pc = "validate"
    /\ \E T2 \in Thresholds2 :
          /\ Separates(Val(signals), T2)
          /\ TwoBands(Val(signals), T2)
          /\ Val(bytes) = RefBytes(Val(signals), T2)
    /\ Cardinality({ Val(signals)[k] : k \in 1..NumSignals }) >= 4

\* C8: the decoder returns 5 bytes in 0..255, and bit 7 - (i mod 8) of byte
\* i div 8 is 1 exactly when 2 * width[i] > min(widths) + max(widths), for
\* every i in 0..39.
C8_DecoderAlgorithm ==
    pc = "validate"
        => LET sigs == Val(signals)
               b == Val(bytes)
           IN  /\ Len(b) = 5
               /\ \A k \in 1..5 : b[k] \in 0..255
               /\ \A i \in 0..(NumSignals - 1) :
                     ((b[(i \div 8) + 1] \div Pow2(7 - (i % 8))) % 2 = 1)
                         <=> (2 * sigs[i + 1] > SeqMin(sigs) + SeqMax(sigs))

C8_Witness ==
    /\ pc = "validate"
    /\ SeqMin(Val(signals)) < SeqMax(Val(signals))
    /\ \E k \in 1..NumSignals :
          2 * Val(signals)[k] = SeqMin(Val(signals)) + SeqMax(Val(signals))

\* C9: read() returns status Ok only from an attempt whose trace gave exactly
\* 40 widths and whose decoded frame passes the checksum; widths of another
\* count never reach the decoder, and a frame failing the checksum never
\* yields temperature, humidity or a reading.
C9_SuccessOnlyFromValidFrame ==
    /\ Returned(STATUS_OK)
          => /\ is_valid(Val(response))
             /\ IsBound(signals) /\ Len(Val(signals)) = NumSignals
             /\ decoded
             /\ IsBound(bytes) /\ Val(bytes) = calculate_bits(Val(signals))
             /\ Val(bytes)[5] = ByteSum(Val(bytes)) % 256
    /\ (IsBound(signals) /\ Len(Val(signals)) # NumSignals)
          => (~decoded /\ bytes = Unbound)
    /\ (IsBound(bytes) /\ Val(bytes)[5] # ByteSum(Val(bytes)) % 256)
          => (humidity = Unbound /\ temperature = Unbound /\ response = Unbound)

C9_Witness ==
    /\ Returned(STATUS_OK)
    /\ decoded
    /\ scn.n = NumSignals + 1
    /\ Len(Val(signals)) = NumSignals

\* C10: every acquisition ends, by returning a trace or by raising into the
\* retry handler, also on a line that never holds one value for
\* unchanged_threshold consecutive polls.
C10_AcquisitionTimeout == (pc = "poll") ~> (pc = "parse" \/ pc = "except")

\* the samples a..b of d are all equal
Constant(d, a, b) == \A k \in a..b : d[k] = d[a]

\* C11: the polling loop appends one sample per poll and counts the polls
\* since the last change; it stops at the first poll after which the last
\* unchanged_threshold samples are equal, so the returned trace has at least
\* that many samples, its last unchanged_threshold samples are equal, and no
\* earlier window of unchanged_threshold consecutive samples is constant.
C11_SamplerStop ==
    /\ (pc = "poll" /\ Len(data) < MaxTrace)
          => /\ unchanged_count <= unchanged_threshold
             /\ unchanged_count <= Len(data)
             /\ (unchanged_count = 0) = (Len(data) = 0)
             /\ Constant(data, Len(data) - unchanged_count + 1, Len(data))
             /\ (unchanged_count > 0 /\ unchanged_count < Len(data))
                   => data[Len(data) - unchanged_count] # data[Len(data)]
    /\ pc = "parse"
          => LET d == Val(input_data)
                 n == Len(d)
             IN  /\ n >= unchanged_threshold
                 /\ Constant(d, n - unchanged_threshold + 1, n)
                 /\ \A s \in 1..(n - unchanged_threshold) :
                       ~Constant(d, s, s + unchanged_threshold - 1)

C11_Witness ==
    /\ pc = "parse"
    /\ Len(Val(input_data)) > unchanged_threshold + NumSignals
    /\ Val(input_data)[1] # Val(input_data)[Len(Val(input_data))]

\* the GPIO and sleep calls of one attempt up to the first poll
Handshake ==
    << <<"setup_out", HIGH>>, <<"sleep", 500>>,
       <<"output", HIGH>>, <<"sleep", 50>>,
       <<"output", LOW>>, <<"sleep", 20>>,
       <<"setup_in", LOW>> >>

IsPrefix(a, b) == Len(a) <= Len(b) /\ a = SubSeq(b, 1, Len(a))

\* C12: in every attempt the pin is set to output with initial High, then
\* sleep 0.5 s, write High, sleep 0.05 s, write Low, sleep 0.02 s, set to
\* input, and from then on the pin is only read; a read happens only while
\* the pin is an input and no write follows the switch to input in the
\* same attempt.
C12_HandshakeOrder ==
    [][ /\ IsPrefix(ops', Handshake \o << <<"sleep", 1000 * self.min_interval>> >>)
        /\ (pc' = "send_high" => ops' = SubSeq(Handshake, 1, 2))
        /\ (pc' = "send_low" => ops' = SubSeq(Handshake, 1, 4))
        /\ (pc' = "collect" => ops' = SubSeq(Handshake, 1, 6))
        /\ (pc' \in {"poll", "parse", "check_len", "calc", "validate", "derive",
                     "return", "except", "returned"} => ops' = Handshake)
        /\ (data' # data /\ data' # <<>>) => (pin_mode = "in" /\ pin_mode' = "in")
        /\ (pin_mode = "in" /\ ops' # ops /\ ops' # <<>>)
              => ops'[Len(ops')][1] = "sleep" ]_vars

C12_Witness ==
    /\ pc = "poll"
    /\ Len(data) > 0
    /\ pin_mode = "in"
    /\ ops = Handshake
    /\ attempts = 2

\* the indices at which a maximal run of Low samples starts
LowStarts(d) == {k \in 1..Len(d) : d[k] = LOW /\ (k = 1 \/ d[k - 1] = HIGH)}

\* a Low sample followed later by a High sample followed later by a Low
\* sample: Low at a, High at c - 1, Low at c
HasMarker(d) == \E a \in LowStarts(d) : \E c \in LowStarts(d) : a < c

\* C13: for a trace with no Low sample followed later by a High sample
\* followed later by a Low sample, the extractor returns the empty sequence
\* of widths, and the caller raises the invalid-data error.
C13_MissingMarker ==
    /\ (pc = "check_len" /\ ~HasMarker(Val(input_data)))
          => (Val(signals) = <<>> /\ ~LengthOk(Val(signals)))
    /\ (pc = "except" /\ IsBound(input_data) /\ ~HasMarker(Val(input_data)))
          => exc = "DHT11InvalidDataError"

C13_Witness ==
    /\ pc = "check_len"
    /\ ~HasMarker(Val(input_data))
    /\ \E a \in 1..Len(Val(input_data)) :
          /\ Val(input_data)[a] = LOW
          /\ Val(input_data)[Len(Val(input_data))] = HIGH
    /\ Val(signals) = <<>>

\* the index of the marker: the first Low after the first High after the
\* first Low, which is the start of the second run of Low samples
MarkerIndex(d) == SetMin(LowStarts(d) \ {SetMin(LowStarts(d))})

\* the last samples of the High runs that a Low sample ends, from index i on
HighToLow(d, i) == {j \in i..(Len(d) - 1) : d[j] = HIGH /\ d[j + 1] = LOW}

\* the length of the run of High samples that ends at index j
RunLength(d, j) == j - SetMax({k \in 1..j : d[k] = LOW})

\* C14: after the marker a run of High samples is emitted as one width if
\* and only if a Low sample inside the trace ends it: the widths are, in
\* order, the lengths (each >= 1) of the High runs ended by a Low, their
\* number is the number of High-to-Low transitions after the marker, and a
\* High run that reaches the end of the trace adds nothing.
C14_RunEmission ==
    (pc = "check_len" /\ HasMarker(Val(input_data)))
       => LET d == Val(input_data)
              T == HighToLow(d, MarkerIndex(d))
              sigs == Val(signals)
          IN  /\ Len(sigs) = Cardinality(T)
              /\ \A j \in T :
                    LET k == Cardinality({t \in T : t <= j})
                    IN  sigs[k] = RunLength(d, j) /\ sigs[k] >= 1

C14_Witness ==
    /\ pc = "check_len"
    /\ HasMarker(Val(input_data))
    /\ Val(input_data)[Len(Val(input_data))] = HIGH
    /\ Len(Val(signals)) = NumSignals
    /\ \E k \in 1..NumSignals : Val(signals)[k] # Val(signals)[1]

(***************************************************************************)
(* One read() call on a fresh sensor, run to completion.                   *)
(***************************************************************************)
FirstCall == pc = "idle" /\ Call

NextRead ==
    \/ FirstCall
    \/ WhileEnter
    \/ WhileExit
    \/ Setup
    \/ SendHigh
    \/ SendLow
    \/ CollectStart
    \/ Poll
    \/ CollectReturn
    \/ Parse
    \/ CheckLength
    \/ CalculateBits
    \/ ValidateChecksum
    \/ Derive
    \/ Return
    \/ Except
    \/ Exhausted

SpecRead == Init /\ [][NextRead]_vars

\* an upper bound on the polls an acquisition over a settling line has left
PollsLeft ==
    (IF Len(data) <= Len(wave) THEN Len(wave) + 1 - Len(data) ELSE 0)
        * (unchanged_threshold + 1)
    + (unchanged_threshold - unchanged_count)

PollsCap == (MaxTrace + 1) * (unchanged_threshold + 1)

\* the position of a step inside one attempt, counted down to the exit
StepsLeft ==
    CASE pc = "while"     -> PollsCap + 12
      [] pc = "setup"     -> PollsCap + 11
      [] pc = "send_high" -> PollsCap + 10
      [] pc = "send_low"  -> PollsCap + 9
      [] pc = "collect"   -> PollsCap + 8
      [] pc = "poll"      -> PollsLeft + 7
      [] pc = "parse"     -> 6
      [] pc = "check_len" -> 5
      [] pc = "calc"      -> 4
      [] pc = "validate"  -> 3
      [] pc = "derive"    -> 2
      [] pc = "return"    -> 1
      [] pc = "exhausted" -> 1
      [] OTHER            -> 0

\* the guards of the steps of read(): some step can be taken
HasStep ==
    \/ pc = "idle"
    \/ pc = "while" /\ (WhileTest \/ ~WhileTest)
    \/ pc \in {"setup", "send_high", "send_low"}
    \/ pc = "collect" /\ Scenarios # {}
    \/ pc = "poll" /\ (LoopTest \/ ~LoopTest)
    \/ pc \in {"parse", "check_len", "calc", "validate", "derive", "return"}
    \/ pc \in {"except", "exhausted"}

\* a natural number that bounds the steps read() has left
Variant ==
    IF Done THEN 0
    ELSE IF pc = "idle" THEN (self.max_tries + 1) * (PollsCap + 13)
    ELSE (self.max_tries - try_count) * (PollsCap + 13) + StepsLeft

\* C15: the attempt counter stays within 0..max_tries, at most max_tries
\* attempts are started, read() exits only after a successful attempt or
\* with try_count = max_tries, and read() terminates for every max_tries >= 0
\* provided every acquisition terminates: outside an acquisition over a line
\* that never settles, read() always has a next step and every step lowers a
\* natural-valued bound on the steps left.
C15_BoundedAttempts ==
    /\ [](/\ 0 <= try_count
          /\ try_count <= self.max_tries
          /\ attempts <= self.max_tries
          /\ attempts \in {try_count, try_count + 1}
          /\ Variant >= 0
          /\ Done = (Variant = 0)
          /\ ~Done => HasStep
          /\ Done => (Returned(STATUS_OK) \/ try_count = self.max_tries))
    /\ [][(pc = "poll" => scn.after = "hold") => Variant' < Variant]_vars

C15_Witness ==
    /\ pc = "raised"
    /\ try_count = self.max_tries
    /\ attempts = MaxTries

Abs(x) == IF x < 0 THEN -x ELSE x

\* the tenths that the temperature-decimal byte adds to the integral part
DecimalTenths(r, b) == Abs(r.temperature) - Tenths(b[3])

\* C16 as stated: for every accepted frame the temperature-decimal byte
\* contributes between 0 and 9 tenths to the derived temperature.
C16_Original ==
    Returned(STATUS_OK) => DecimalTenths(Val(response), Val(bytes)) \in 0..9

\* C16: for every accepted frame the temperature-decimal byte contributes
\* (frame[3] & 0x7F) tenths to |temperature|, a value between 0 and 127
\* tenths; it is at most 9 tenths exactly when frame[3] & 0x7F <= 9.
C16_TenthsContribution ==
    Returned(STATUS_OK)
        => LET b == Val(bytes)
               c == DecimalTenths(Val(response), b)
           IN  /\ c = b[4] % 128
               /\ c \in 0..127
               /\ (c \in 0..9) = (b[4] % 128 <= 9)

C16_Witness ==
    /\ Returned(STATUS_OK)
    /\ Val(bytes) = <<0, 0, 0, 127, 127>>
    /\ Val(response).temperature = 127

\* what one iteration of the loop of read() makes of a trace d: the error it
\* raises or the response it returns
AttemptOutcome(d) ==
    LET sigs == parse_input_data(d)
    IN  IF ~LengthOk(sigs)
        THEN [exc |-> "DHT11InvalidDataError", response |-> Unbound]
        ELSE LET b == calculate_bits(sigs)
             IN  IF ~validate_checksum(b)
                 THEN [exc |-> "DHT11ChecksumError", response |-> Unbound]
                 ELSE [exc |-> None,
                       response |-> Bind(DHT11Response(STATUS_OK, Temperature(b),
                                                       Humidity(b)))]

\* the trace d holds the levels the line took at the polls of this acquisition
PolledNow(d) ==
    \A k \in 1..Len(d) : d[k] = (IF k <= Len(wave) THEN wave[k] ELSE scn.idle)

RetrySleep == <<"sleep", 1000 * self.min_interval>>

\* C18: an invalid-length failure and a checksum failure are handled alike:
\* the next step adds exactly one to try_count and sleeps min_interval once,
\* also after the last allowed attempt; no other step sleeps min_interval,
\* so a successful attempt is followed by no sleep.  At every attempt
\* boundary the sleeps made equal the failed attempts, and an exhausted
\* read() with max_tries = N has slept N times.
C18_FailureHandling ==
    /\ [][ /\ (pc # "except" /\ pc' = "except")
                 => /\ exc' \in {"DHT11InvalidDataError", "DHT11ChecksumError"}
                    /\ fails' = fails + 1
                    /\ UNCHANGED <<try_count, sleeps, ops>>
           /\ pc = "except"
                 => /\ try_count' = try_count + 1
                    /\ sleeps' = sleeps + 1
                    /\ ops' = Append(ops, RetrySleep)
                    /\ pc' = "while"
           /\ (pc \notin {"except", "idle", "returned", "raised"})
                 => /\ sleeps' = sleeps
                    /\ (ops' = ops \/ ops' = <<>> \/ ops'[Len(ops')] # RetrySleep) ]_vars
    /\ [](/\ pc \in {"while", "exhausted"} => (sleeps = fails /\ sleeps = try_count)
          /\ pc \in {"exhausted", "raised"} => sleeps = self.max_tries
          /\ Returned(STATUS_OK) => (sleeps = fails /\ ops = Handshake))

C18_Witness ==
    /\ pc = "raised"
    /\ self.max_tries = MaxTries
    /\ sleeps = MaxTries
    /\ fails = MaxTries

AllEqual(sigs) == \A k \in 1..Len(sigs) : sigs[k] = sigs[1]

\* bit p (1..40, most significant bit of byte 0 first) of a decoded frame
DecodedBit(b, p) == (b[((p - 1) \div 8) + 1] \div Pow2(7 - ((p - 1) % 8))) % 2

\* C20: 40 equal widths decode to the frame [0,0,0,0,0], which passes the
\* checksum, so that attempt raises nothing and read() returns status Ok
\* with humidity 0 and temperature 0; and in every decoded frame a pulse of
\* the minimum width gives bit 0.
C20_EqualWidths ==
    /\ (IsBound(bytes) /\ AllEqual(Val(signals)))
          => /\ Val(bytes) = <<0, 0, 0, 0, 0>>
             /\ validate_checksum(Val(bytes))
             /\ pc \in {"validate", "derive", "return", "returned"}
             /\ pc = "returned"
                   => Val(response) = DHT11Response(STATUS_OK, 0, 0)
    /\ IsBound(bytes)
          => \A p \in 1..NumSignals :
                Val(signals)[p] = SeqMin(Val(signals)) => DecodedBit(Val(bytes), p) = 0

C20_Witness ==
    /\ Returned(STATUS_OK)
    /\ AllEqual(Val(signals))
    /\ Val(signals)[1] = 2
    /\ scn.frame # <<0, 0, 0, 0, 0>>
    /\ Val(response) = DHT11Response(STATUS_OK, 0, 0)

====
